---- MODULE Spec2Model ----
(***************************************************************************)
(* Room/session coordination of the Bloc multiplayer servers.              *)
(*                                                                         *)
(* Spec      : the standalone server (server.js, src/unnamed/part_001).    *)
(* SpecRoute : the API-route server (src/app/api/socket/route.ts, whose    *)
(*             handlers are repeated in src/pages/api/socket/index.ts).    *)
(*                                                                         *)
(* Node runs every socket handler to completion on one thread and no       *)
(* handler awaits, so one handler is one atomic action.                    *)
(***************************************************************************)
EXTENDS Integers, Sequences, FiniteSets, TLC

\* ---------------------------------------------------------------- bounds
NumSockets == 2     \* connections that ever exist (socket ids 1..NumSockets)
MaxFracLen == 1     \* base-36 digits Math.random() yields after "0."
MaxRooms == 1       \* createRoom is not fired beyond this many live rooms
MaxScore == 1       \* score payloads of updateGameState are 0..MaxScore
MaxShapeIdx == 0    \* shape draws of a piece are 0..MaxShapeIdx
MaxColorIdx == 0    \* color draws of a piece are 0..MaxColorIdx
MaxNow == 0         \* Date.now() readings are 0..MaxNow
MaxCharIdx == 0     \* API-route code draws are chars.charAt(0..MaxCharIdx)
MaxLobbyRooms == 2  \* live rooms of the lobby-only specification SpecLobby
MaxPending == 1     \* a user acts only while at most this many messages are on their way
MaxClientOps == 4   \* requests the user of one client makes in a behaviour of SpecClient
MaxInbox == 2       \* broadcasts to one client waiting to be handled

\* ------------------------------------------------------ program constants
RoomCapacity == 2
PieceCount == 3
CodeSliceStart == 2
CodeSliceEnd == 8
RouteCodeLen == 4

Sockets == 1..NumSockets

\* null / undefined of socket.roomCode and room.currentPieces; room codes
\* are sequences of one-character strings, so this is none of them
Null == <<"null">>

VARIABLES
  server,          \* which implementation runs: "standalone" | "route"
  gameRooms,       \* the room map: code -> room
  socketRoomCode,  \* socket.roomCode (socket.data.roomCode in the API route)
  socketRooms,     \* socket.io room membership made by socket.join/leave
  connected,       \* "new" | "connected" | "disconnected" per socket id
  request,         \* the request the last handler served
  response,        \* what the last handler passed to its callback
  emitted,         \* the broadcasts of the last handler, in emission order
  outbox,          \* per client: the requests it emitted that the server has not served yet
  inbox,           \* per client: the broadcasts sent to it that it has not handled yet
  globalRoomInfo,  \* per client: useSocket's room info, <<>> for null, <<info>> otherwise
  page,            \* per client: the mounted page component, "lobby" | "game"
  gameStatus,      \* per client: gameStatus of the game page
  gamePieces,      \* per client: where the game page's pieces came from
  gameScore,       \* per client: score of the game page
  effectDue,       \* per client: the game page's room-info effect has a changed dependency
  leftRoom,        \* per client: it called leaveRoom and has not created or joined since
  opsDone          \* per client: how many requests its user has made so far

serverVars == <<server, gameRooms, socketRoomCode, socketRooms, connected, request, response, emitted>>

clientVars == <<outbox, inbox, globalRoomInfo, page, gameStatus, gamePieces, gameScore, effectDue, leftRoom, opsDone>>

vars == <<server, gameRooms, socketRoomCode, socketRooms, connected, request, response, emitted,
          outbox, inbox, globalRoomInfo, page, gameStatus, gamePieces, gameScore, effectDue, leftRoom, opsDone>>

\* ------------------------------------------------------------- helpers
Min(a, b) == IF a < b THEN a ELSE b

\* String.prototype.substring(from, to) on a sequence of characters
substring(str, from, to) == SubSeq(str, from + 1, Min(to, Len(str)))

ToUpperChar(ch) == CASE ch = "a" -> "A" [] ch = "b" -> "B" [] OTHER -> ch

toUpperCase(str) == [i \in 1..Len(str) |-> ToUpperChar(str[i])]

\* digits of the base-36 expansion of a Math.random() value
DigitChars == {"a", "7"}

\* the digits after "0." of a nonzero Math.random() value
RandomFractions == UNION {[1..n -> DigitChars] : n \in 1..MaxFracLen}

\* Number.prototype.toString(36) of a value in [0, 1): "0" for 0, else "0.ddd"
toString36(frac) == IF Len(frac) = 0 THEN <<"0">> ELSE <<"0", ".">> \o frac

generateRoomCode(frac) ==
  toUpperCase(substring(toString36(frac), CodeSliceStart, CodeSliceEnd))

\* JavaScript truthiness of a room-code value: null, undefined and "" are falsy
Falsy(code) == code = Null \/ code = <<>>

UsernameOf(s) == CASE s = 1 -> "Alice" [] s = 2 -> "Bob" [] OTHER -> "Carol"

NoResponse == [kind |-> "none"]

\* faulty variant: an absent id yields the last index, as players.splice(-1, 1)
\* would remove the last player
findIndex_LastIfAbsent(players, id) ==
  IF \E i \in 1..Len(players) : players[i].id = id
  THEN CHOOSE i \in 1..Len(players) :
         /\ players[i].id = id
         /\ \A j \in 1..(i - 1) : players[j].id # id
  ELSE Len(players)

\* Array.prototype.findIndex(p => p.id === id), 1-based, 0 for -1
findIndex(players, id) ==
  IF \E i \in 1..Len(players) : players[i].id = id
  THEN CHOOSE i \in 1..Len(players) :
         /\ players[i].id = id
         /\ \A j \in 1..(i - 1) : players[j].id # id
  ELSE 0

\* Array.prototype.splice(index, 1)
splice(players, i) ==
  [k \in 1..(Len(players) - 1) |-> IF k < i THEN players[k] ELSE players[k + 1]]

\* room.players.every(p => p.isReady)
AllReady(players) == \A i \in 1..Len(players) : players[i].isReady

\* io.to(code): the sockets currently in the socket.io room `code`
InRoom(code) == {s \in Sockets : code \in socketRooms[s]}

getRoomInfo(rooms, roomCode) ==
  IF roomCode \notin DOMAIN rooms THEN Null
  ELSE [roomCode |-> roomCode,
        players |-> [i \in 1..Len(rooms[roomCode].players) |->
                       [id |-> rooms[roomCode].players[i].id,
                        username |-> rooms[roomCode].players[i].username,
                        isReady |-> rooms[roomCode].players[i].isReady,
                        isHost |-> rooms[roomCode].players[i].isHost]],
        gameState |-> rooms[roomCode].gameState]

\* Map.prototype.set and Map.prototype.delete
MapSet(rooms, code, room) ==
  [c \in DOMAIN rooms \cup {code} |-> IF c = code THEN room ELSE rooms[c]]

MapDelete(rooms, code) == [c \in DOMAIN rooms \ {code} |-> rooms[c]]

\* faulty variant: the capacity test lets a third player in
RoomIsFull_OffByOne(room) == Len(room.players) > RoomCapacity

\* joinRoom's capacity test: room.players.length >= 2
RoomIsFull(room) == Len(room.players) >= RoomCapacity

\* faulty variant: no new host is named
ReassignHost_Never(remaining, isHost) == remaining

\* handlePlayerDisconnect: if (isHost && room.players.length > 0) players[0].isHost = true
ReassignHost(remaining, isHost) ==
  IF isHost /\ Len(remaining) > 0
  THEN [remaining EXCEPT ![1].isHost = TRUE]
  ELSE remaining

\* faulty variant: an emptied room is kept
RoomIsEmpty_Never(remaining) == FALSE

\* handlePlayerDisconnect: if (room.players.length === 0) the room is deleted
RoomIsEmpty(remaining) == Len(remaining) = 0

\* faulty variant: a finished match is aborted too
GameInProgress_NotWaiting(room) == room.gameState # "waiting"

\* handlePlayerDisconnect: if (room.gameState === 'playing')
GameInProgress(room) == room.gameState = "playing"

\* faulty variant: the abort also clears the ready flags
AbortGame_ResetReady(room) ==
  [room EXCEPT !.gameState = "waiting",
               !.players = [k \in 1..Len(room.players) |->
                              [room.players[k] EXCEPT !.isReady = FALSE]]]

\* handlePlayerDisconnect: room.gameState = 'waiting'
AbortGame(room) == [room EXCEPT !.gameState = "waiting"]

\* gameOver: room.players.every(p => p.gameOver)
AllPlayersDone(players) == \A i \in 1..Len(players) : players[i].gameOver

NewPlayer(s, host) ==
  [id |-> s, username |-> UsernameOf(s), isReady |-> FALSE, isHost |-> host,
   board |-> "null", score |-> 0, pieces |-> <<>>, gameOver |-> FALSE]

\* the clients before they did anything: every browser shows the lobby page
\* (MultiplayerLobby), useSocket's globalRoomInfo is null
ClientInit ==
  /\ outbox = [s \in Sockets |-> <<>>]
  /\ inbox = [s \in Sockets |-> <<>>]
  /\ globalRoomInfo = [s \in Sockets |-> <<>>]
  /\ page = [s \in Sockets |-> "lobby"]
  /\ gameStatus = [s \in Sockets |-> "loading"]
  /\ gamePieces = [s \in Sockets |-> "none"]
  /\ gameScore = [s \in Sockets |-> 0]
  /\ effectDue = [s \in Sockets |-> FALSE]
  /\ leftRoom = [s \in Sockets |-> FALSE]
  /\ opsDone = [s \in Sockets |-> 0]

Init ==
  /\ server = "standalone"
  /\ gameRooms = [c \in {} |-> Null]
  /\ socketRoomCode = [s \in Sockets |-> Null]
  /\ socketRooms = [s \in Sockets |-> {}]
  /\ connected = [s \in Sockets |-> "new"]
  /\ request = [event |-> "none", socket |-> 0]
  /\ response = NoResponse
  /\ emitted = <<>>
  /\ ClientInit

\* io.on('connection'): a fresh socket id gets its handlers
Connect(s) ==
  /\ connected[s] = "new"
  /\ UNCHANGED server
  /\ connected' = [connected EXCEPT ![s] = "connected"]
  /\ request' = [event |-> "connection", socket |-> s]
  /\ response' = NoResponse
  /\ emitted' = <<>>
  /\ UNCHANGED <<gameRooms, socketRoomCode, socketRooms>>

\* socket.on('createRoom'), fired while at most `limit` rooms result
CreateRoomWithin(s, limit) ==
  /\ connected[s] = "connected"
  /\ UNCHANGED server
  /\ \E frac \in RandomFractions :
       LET roomCode == generateRoomCode(frac)
           rooms1 == MapSet(gameRooms, roomCode,
                       [players |-> <<NewPlayer(s, TRUE)>>,
                        gameState |-> "waiting",
                        currentPieces |-> Null])
           joined1 == [socketRooms EXCEPT ![s] = @ \cup {roomCode}]
       IN /\ roomCode \in DOMAIN gameRooms \/ Cardinality(DOMAIN gameRooms) < limit
          /\ gameRooms' = rooms1
          /\ socketRooms' = joined1
          /\ socketRoomCode' = [socketRoomCode EXCEPT ![s] = roomCode]
          /\ response' = [kind |-> "callback", success |-> TRUE, roomCode |-> roomCode]
          /\ emitted' = <<[event |-> "roomUpdated", room |-> roomCode,
                           to |-> {t \in Sockets : roomCode \in joined1[t]},
                           roomInfo |-> getRoomInfo(rooms1, roomCode)]>>
          /\ request' = [event |-> "createRoom", socket |-> s]
  /\ UNCHANGED connected

CreateRoom(s) == CreateRoomWithin(s, MaxRooms)

\* what a user may type as a room code: any case of any code
JoinInputs == RandomFractions \cup {toUpperCase(f) : f \in RandomFractions}

JoinRoom(s, roomCode) ==
  /\ connected[s] = "connected"
  /\ UNCHANGED server
  /\ request' = [event |-> "joinRoom", socket |-> s, roomCode |-> toUpperCase(roomCode)]
  /\ LET normalizedRoomCode == toUpperCase(roomCode) IN
     IF normalizedRoomCode \notin DOMAIN gameRooms THEN
       /\ response' = [kind |-> "callback", success |-> FALSE, error |-> "Room not found"]
       /\ emitted' = <<>>
       /\ UNCHANGED <<gameRooms, socketRoomCode, socketRooms>>
     ELSE IF gameRooms[normalizedRoomCode].gameState # "waiting" THEN
       /\ response' = [kind |-> "callback", success |-> FALSE, error |-> "Game already in progress"]
       /\ emitted' = <<>>
       /\ UNCHANGED <<gameRooms, socketRoomCode, socketRooms>>
     ELSE IF RoomIsFull(gameRooms[normalizedRoomCode]) THEN
       /\ response' = [kind |-> "callback", success |-> FALSE, error |-> "Room is full"]
       /\ emitted' = <<>>
       /\ UNCHANGED <<gameRooms, socketRoomCode, socketRooms>>
     ELSE
       LET rooms1 == [gameRooms EXCEPT ![normalizedRoomCode].players =
                        Append(@, NewPlayer(s, FALSE))]
           joined1 == [socketRooms EXCEPT ![s] = @ \cup {normalizedRoomCode}]
       IN /\ gameRooms' = rooms1
          /\ socketRooms' = joined1
          /\ socketRoomCode' = [socketRoomCode EXCEPT ![s] = normalizedRoomCode]
          /\ response' = [kind |-> "callback", success |-> TRUE, roomCode |-> normalizedRoomCode]
          /\ emitted' = <<[event |-> "roomUpdated", room |-> normalizedRoomCode,
                           to |-> {t \in Sockets : normalizedRoomCode \in joined1[t]},
                           roomInfo |-> getRoomInfo(rooms1, normalizedRoomCode)]>>
  /\ UNCHANGED connected

\* faulty variant: the flip writes the other players back as not ready
FlipReady_ResetOthers(players, i) ==
  [k \in 1..Len(players) |->
     [players[k] EXCEPT !.isReady = IF k = i THEN ~@ ELSE FALSE]]

\* faulty variant: the toggle sets the flag instead of negating it
FlipReady_SetReady(players, i) == [players EXCEPT ![i].isReady = TRUE]

\* toggleReady: player.isReady = !player.isReady
FlipReady(players, i) == [players EXCEPT ![i].isReady = ~@]

ToggleReady(s) ==
  /\ connected[s] = "connected"
  /\ UNCHANGED server
  /\ request' = [event |-> "toggleReady", socket |-> s]
  /\ LET roomCode == socketRoomCode[s] IN
     IF Falsy(roomCode) \/ roomCode \notin DOMAIN gameRooms THEN
       /\ response' = [kind |-> "callback", success |-> FALSE]
       /\ emitted' = <<>>
       /\ UNCHANGED gameRooms
     ELSE
       LET i == findIndex(gameRooms[roomCode].players, s) IN
       IF i # 0 THEN
         LET rooms1 == [gameRooms EXCEPT ![roomCode].players = FlipReady(@, i)] IN
         /\ gameRooms' = rooms1
         /\ response' = [kind |-> "callback", success |-> TRUE,
                         isReady |-> rooms1[roomCode].players[i].isReady]
         /\ emitted' = <<[event |-> "roomUpdated", room |-> roomCode,
                          to |-> InRoom(roomCode),
                          roomInfo |-> getRoomInfo(rooms1, roomCode)]>>
       ELSE
         /\ response' = NoResponse
         /\ emitted' = <<>>
         /\ UNCHANGED gameRooms
  /\ UNCHANGED <<socketRoomCode, socketRooms, connected>>

Shapes == <<"T", "Square", "Line", "Z", "S", "L", "J">>

Colors == <<"blue", "green", "red", "purple", "orange", "teal", "yellow">>

\* the draws Math.floor(Math.random() * shapes.length) of one batch
ShapeDraws == [1..PieceCount -> 0..MaxShapeIdx]

ColorDraws == [1..PieceCount -> 0..MaxColorIdx]

generateInitialPieces(now, shapeDraw, colorDraw) ==
  [i \in 1..PieceCount |->
     [id |-> now + (i - 1),
      shape |-> Shapes[shapeDraw[i] + 1],
      color |-> Colors[colorDraw[i] + 1]]]

DefaultPieces(now) ==
  <<[id |-> now, shape |-> "Square", color |-> "blue"],
    [id |-> now + 1, shape |-> "T", color |-> "green"],
    [id |-> now + 2, shape |-> "Line", color |-> "red"]>>

\* faulty variant: roomUpdated is emitted before gameStarted
StartBroadcasts_UpdateFirst(roomCode, to, roomInfo, pieces) ==
  <<[event |-> "roomUpdated", room |-> roomCode, to |-> to, roomInfo |-> roomInfo],
    [event |-> "gameStarted", room |-> roomCode, to |-> to,
     roomInfo |-> roomInfo, initialPieces |-> pieces]>>

\* faulty variant: every socket of the room gets a gameStarted of its own,
\* with a batch made for it (piece ids differ from socket to socket)
StartBroadcasts_OwnBatchEach(roomCode, to, roomInfo, pieces) ==
  [k \in 1..Cardinality(to) |->
     LET t == CHOOSE u \in to : Cardinality({v \in to : v < u}) = k - 1 IN
     [event |-> "gameStarted", room |-> roomCode, to |-> {t}, roomInfo |-> roomInfo,
      initialPieces |-> [i \in 1..Len(pieces) |-> [pieces[i] EXCEPT !.id = @ + k]]]]
  \o <<[event |-> "roomUpdated", room |-> roomCode, to |-> to, roomInfo |-> roomInfo]>>

\* startGame: io.to(roomCode).emit('gameStarted', {roomInfo, initialPieces})
\* and then io.to(roomCode).emit('roomUpdated', roomInfo)
StartBroadcasts(roomCode, to, roomInfo, pieces) ==
  <<[event |-> "gameStarted", room |-> roomCode, to |-> to,
     roomInfo |-> roomInfo, initialPieces |-> pieces],
    [event |-> "roomUpdated", room |-> roomCode, to |-> to, roomInfo |-> roomInfo]>>

\* function startGame(roomCode): sets gameRooms', emitted'
startGame(roomCode, now, shapeDraw, colorDraw) ==
  IF roomCode \notin DOMAIN gameRooms THEN
    /\ emitted' = <<>>
    /\ UNCHANGED gameRooms
  ELSE
    LET generated == generateInitialPieces(now, shapeDraw, colorDraw)
        rooms1 == [gameRooms EXCEPT ![roomCode].gameState = "playing",
                                    ![roomCode].currentPieces = generated]
        sharedPieces == IF Len(generated) = 0 THEN DefaultPieces(now) ELSE generated
        updatedRoomInfo == getRoomInfo(rooms1, roomCode)
    IN /\ gameRooms' = rooms1
       /\ emitted' = StartBroadcasts(roomCode, InRoom(roomCode), updatedRoomInfo, sharedPieces)

\* faulty variant: any player of the room may start
StartGuard_NoHostCheck(s) ==
  LET roomCode == socketRoomCode[s] IN
  /\ ~Falsy(roomCode)
  /\ roomCode \in DOMAIN gameRooms
  /\ LET players == gameRooms[roomCode].players
         i == findIndex(players, s)
     IN /\ i # 0
        /\ Len(players) > 1
        /\ AllReady(players)

\* the condition of socket.on('startGame') under which startGame is called
StartGuard(s) ==
  LET roomCode == socketRoomCode[s] IN
  /\ ~Falsy(roomCode)
  /\ roomCode \in DOMAIN gameRooms
  /\ LET players == gameRooms[roomCode].players
         i == findIndex(players, s)
     IN /\ i # 0
        /\ players[i].isHost
        /\ Len(players) > 1
        /\ AllReady(players)

StartGame(s) ==
  /\ connected[s] = "connected"
  /\ UNCHANGED server
  /\ request' = [event |-> "startGame", socket |-> s]
  /\ response' = NoResponse
  /\ IF StartGuard(s) THEN
       \E now \in 0..MaxNow, shapeDraw \in ShapeDraws, colorDraw \in ColorDraws :
         startGame(socketRoomCode[s], now, shapeDraw, colorDraw)
     ELSE
       /\ emitted' = <<>>
       /\ UNCHANGED gameRooms
  /\ UNCHANGED <<socketRoomCode, socketRooms, connected>>

Boards == {"board1"}

Scores == 0..MaxScore

UpdateGameState(s, board, score) ==
  /\ connected[s] = "connected"
  /\ UNCHANGED server
  /\ request' = [event |-> "updateGameState", socket |-> s]
  /\ response' = NoResponse
  /\ LET roomCode == socketRoomCode[s] IN
     IF Falsy(roomCode) \/ roomCode \notin DOMAIN gameRooms THEN
       /\ emitted' = <<>>
       /\ UNCHANGED gameRooms
     ELSE
       LET i == findIndex(gameRooms[roomCode].players, s) IN
       IF i # 0 /\ gameRooms[roomCode].gameState = "playing" THEN
         /\ gameRooms' = [gameRooms EXCEPT ![roomCode].players[i].board = board,
                                           ![roomCode].players[i].score = score]
         /\ emitted' = <<[event |-> "opponentUpdated", room |-> roomCode,
                          to |-> InRoom(roomCode),
                          playerId |-> s, board |-> board, score |-> score]>>
       ELSE
         /\ emitted' = <<>>
         /\ UNCHANGED gameRooms
  /\ UNCHANGED <<socketRoomCode, socketRooms, connected>>

\* faulty variant: among players of equal greatest score the last one wins
Winner_LastOfGreatest(players) ==
  players[CHOOSE i \in 1..Len(players) :
            /\ \A j \in 1..Len(players) : players[j].score <= players[i].score
            /\ \A j \in (i + 1)..Len(players) : players[j].score < players[i].score]

\* [...players].sort((a, b) => b.score - a.score)[0]: the sort is stable, so
\* the first player in room order among those of greatest score
Winner(players) ==
  players[CHOOSE i \in 1..Len(players) :
            /\ \A j \in 1..Len(players) : players[j].score <= players[i].score
            /\ \A j \in 1..(i - 1) : players[j].score < players[i].score]

GameOver(s) ==
  /\ connected[s] = "connected"
  /\ UNCHANGED server
  /\ request' = [event |-> "gameOver", socket |-> s]
  /\ response' = NoResponse
  /\ LET roomCode == socketRoomCode[s] IN
     IF Falsy(roomCode) \/ roomCode \notin DOMAIN gameRooms THEN
       /\ emitted' = <<>>
       /\ UNCHANGED gameRooms
     ELSE
       LET i == findIndex(gameRooms[roomCode].players, s) IN
       IF i # 0 THEN
         LET rooms1 == [gameRooms EXCEPT ![roomCode].players[i].gameOver = TRUE] IN
         IF AllPlayersDone(rooms1[roomCode].players) THEN
           LET players == rooms1[roomCode].players
               winner == Winner(players)
           IN /\ gameRooms' = [rooms1 EXCEPT ![roomCode].gameState = "finished"]
              /\ emitted' = <<[event |-> "gameFinished", room |-> roomCode,
                               to |-> InRoom(roomCode),
                               winnerId |-> winner.id,
                               winnerName |-> winner.username,
                               players |-> [k \in 1..Len(players) |->
                                              [id |-> players[k].id,
                                               username |-> players[k].username,
                                               score |-> players[k].score]]]>>
         ELSE
           /\ gameRooms' = rooms1
           /\ emitted' = <<>>
       ELSE
         /\ emitted' = <<>>
         /\ UNCHANGED gameRooms
  /\ UNCHANGED <<socketRoomCode, socketRooms, connected>>

\* function handlePlayerDisconnect(socket), called for `event` with socket.io
\* membership `joined`: sets gameRooms', socketRoomCode', socketRooms',
\* emitted', and request' with the handler's locals roomCode and playerIndex
handlePlayerDisconnect(s, joined, event) ==
  LET roomCode == socketRoomCode[s] IN
  IF Falsy(roomCode) \/ roomCode \notin DOMAIN gameRooms THEN
    /\ request' = [event |-> event, socket |-> s, roomCode |-> roomCode, playerIndex |-> 0]
    /\ emitted' = <<>>
    /\ socketRooms' = joined
    /\ UNCHANGED <<gameRooms, socketRoomCode>>
  ELSE
    LET room == gameRooms[roomCode]
        playerIndex == findIndex(room.players, s)
        to == {t \in Sockets : roomCode \in joined[t]}
    IN
    /\ request' = [event |-> event, socket |-> s, roomCode |-> roomCode,
                   playerIndex |-> playerIndex]
    /\ socketRooms' = [joined EXCEPT ![s] = @ \ {roomCode}]
    /\ socketRoomCode' = [socketRoomCode EXCEPT ![s] = Null]
    /\ IF playerIndex = 0 THEN
         /\ emitted' = <<>>
         /\ UNCHANGED gameRooms
       ELSE
         LET isHost == room.players[playerIndex].isHost
             disconnectedPlayerName == room.players[playerIndex].username
             remaining == splice(room.players, playerIndex)
         IN
         IF RoomIsEmpty(remaining) THEN
           /\ gameRooms' = MapDelete(gameRooms, roomCode)
           /\ emitted' = <<>>
         ELSE
           LET room1 == [room EXCEPT !.players = ReassignHost(remaining, isHost)]
               aborted == GameInProgress(room1)
               room2 == IF aborted THEN AbortGame(room1) ELSE room1
               rooms1 == [gameRooms EXCEPT ![roomCode] = room2]
           IN /\ gameRooms' = rooms1
              /\ emitted' =
                   (IF aborted
                    THEN <<[event |-> "gameAborted", room |-> roomCode, to |-> to,
                            reason |-> <<disconnectedPlayerName, "disconnected">>]>>
                    ELSE <<>>)
                   \o <<[event |-> "playerLeft", room |-> roomCode, to |-> to,
                         playerId |-> s,
                         roomInfo |-> getRoomInfo(rooms1, roomCode)]>>

LeaveRoom(s) ==
  /\ connected[s] = "connected"
  /\ UNCHANGED server
  /\ response' = NoResponse
  /\ handlePlayerDisconnect(s, socketRooms, "leaveRoom")
  /\ UNCHANGED connected

GetRoomInfo(s, roomCode) ==
  /\ connected[s] = "connected"
  /\ UNCHANGED server
  /\ request' = [event |-> "getRoomInfo", socket |-> s, roomCode |-> toUpperCase(roomCode)]
  /\ emitted' = <<>>
  /\ LET normalizedRoomCode == toUpperCase(roomCode)
         roomInfo == getRoomInfo(gameRooms, normalizedRoomCode)
         found == normalizedRoomCode \in DOMAIN gameRooms  \* roomInfo is not null
         isPlayerInRoom == /\ found
                           /\ \E i \in 1..Len(roomInfo.players) : roomInfo.players[i].id = s
     IN
     IF found /\ isPlayerInRoom THEN
       /\ IF socketRoomCode[s] # normalizedRoomCode THEN
            /\ socketRoomCode' = [socketRoomCode EXCEPT ![s] = normalizedRoomCode]
            /\ socketRooms' = [socketRooms EXCEPT ![s] = @ \cup {normalizedRoomCode}]
          ELSE UNCHANGED <<socketRoomCode, socketRooms>>
       /\ response' = [kind |-> "callback", success |-> TRUE, roomInfo |-> roomInfo]
     ELSE
       /\ response' = [kind |-> "callback", success |-> FALSE]
       /\ UNCHANGED <<socketRoomCode, socketRooms>>
  /\ UNCHANGED <<gameRooms, connected>>

\* socket.on('disconnect'): socket.io has already taken the closing socket
\* out of all its rooms when this handler runs
Disconnect(s) ==
  /\ connected[s] = "connected"
  /\ UNCHANGED server
  /\ connected' = [connected EXCEPT ![s] = "disconnected"]
  /\ response' = NoResponse
  /\ handlePlayerDisconnect(s, [socketRooms EXCEPT ![s] = {}], "disconnect")

Next ==
  \/ \E s \in Sockets : Connect(s) /\ UNCHANGED clientVars
  \/ \E s \in Sockets : CreateRoom(s) /\ UNCHANGED clientVars
  \/ \E s \in Sockets, roomCode \in JoinInputs : JoinRoom(s, roomCode) /\ UNCHANGED clientVars
  \/ \E s \in Sockets : ToggleReady(s) /\ UNCHANGED clientVars
  \/ \E s \in Sockets : StartGame(s) /\ UNCHANGED clientVars
  \/ \E s \in Sockets, board \in Boards, score \in Scores : UpdateGameState(s, board, score) /\ UNCHANGED clientVars
  \/ \E s \in Sockets : GameOver(s) /\ UNCHANGED clientVars
  \/ \E s \in Sockets : LeaveRoom(s) /\ UNCHANGED clientVars
  \/ \E s \in Sockets, roomCode \in JoinInputs : GetRoomInfo(s, roomCode) /\ UNCHANGED clientVars
  \/ \E s \in Sockets : Disconnect(s) /\ UNCHANGED clientVars

Spec == Init /\ [][Next]_vars

\* The standalone server serving clients that only create, join, get ready,
\* start, leave and disconnect; without the in-match requests there is room
\* for MaxLobbyRooms rooms at a time. Every behaviour of SpecLobby is a
\* behaviour of the server.
NextLobby ==
  \/ \E s \in Sockets : Connect(s) /\ UNCHANGED clientVars
  \/ \E s \in Sockets : CreateRoomWithin(s, MaxLobbyRooms) /\ UNCHANGED clientVars
  \/ \E s \in Sockets, roomCode \in JoinInputs : JoinRoom(s, roomCode) /\ UNCHANGED clientVars
  \/ \E s \in Sockets : ToggleReady(s) /\ UNCHANGED clientVars
  \/ \E s \in Sockets : StartGame(s) /\ UNCHANGED clientVars
  \/ \E s \in Sockets : LeaveRoom(s) /\ UNCHANGED clientVars
  \/ \E s \in Sockets : Disconnect(s) /\ UNCHANGED clientVars

SpecLobby == Init /\ [][NextLobby]_vars

\* ======================================================================
\* The API-route server (src/app/api/socket/route.ts). Its room map `rooms`
\* is gameRooms, socket.data.roomCode is socketRoomCode.
\* ======================================================================
RouteChars == <<"A", "B", "C", "D", "E", "F", "G", "H", "I", "J", "K", "L", "M",
                "N", "O", "P", "Q", "R", "S", "T", "U", "V", "W", "X", "Y", "Z">>

\* the draws Math.floor(Math.random() * chars.length) of one room code
RouteCodeDraws == [1..RouteCodeLen -> 0..MaxCharIdx]

RouteGenerateRoomCode(draw) == [i \in 1..RouteCodeLen |-> RouteChars[draw[i] + 1]]

\* what a user may type as a room code: a generated code, or one in lower case
RouteJoinInputs ==
  {RouteGenerateRoomCode(d) : d \in RouteCodeDraws} \cup {<<"a", "a", "a", "a">>}

RouteNewPlayer(s, host) ==
  [id |-> s, username |-> UsernameOf(s), isReady |-> FALSE, isHost |-> host]

\* faulty variant: the capacity test lets a third player in
RouteRoomIsFull_OffByOne(roomData) == Len(roomData.players) > RoomCapacity

\* joinRoom's capacity test: roomData.players.length >= 2
RouteRoomIsFull(roomData) == Len(roomData.players) >= RoomCapacity

\* faulty variant: no new host is named
RouteReassignHost_Never(remaining, isHost) == remaining

\* handlePlayerDisconnect: if (isHost && roomData.players.length > 0) players[0].isHost = true
RouteReassignHost(remaining, isHost) ==
  IF isHost /\ Len(remaining) > 0
  THEN [remaining EXCEPT ![1].isHost = TRUE]
  ELSE remaining

InitRoute ==
  /\ server = "route"
  /\ gameRooms = [c \in {} |-> Null]
  /\ socketRoomCode = [s \in Sockets |-> Null]
  /\ socketRooms = [s \in Sockets |-> {}]
  /\ connected = [s \in Sockets |-> "new"]
  /\ request = [event |-> "none", socket |-> 0]
  /\ response = NoResponse
  /\ emitted = <<>>
  /\ ClientInit

RouteCreateRoom(s) ==
  /\ connected[s] = "connected"
  /\ UNCHANGED server
  /\ \E draw \in RouteCodeDraws :
       LET roomCode == RouteGenerateRoomCode(draw)
           roomData == [roomCode |-> roomCode,
                        players |-> <<RouteNewPlayer(s, TRUE)>>,
                        gameState |-> "waiting"]
           joined1 == [socketRooms EXCEPT ![s] = @ \cup {roomCode}]
       IN /\ roomCode \in DOMAIN gameRooms \/ Cardinality(DOMAIN gameRooms) < MaxRooms
          /\ gameRooms' = MapSet(gameRooms, roomCode, roomData)
          /\ socketRooms' = joined1
          /\ socketRoomCode' = [socketRoomCode EXCEPT ![s] = roomCode]
          /\ emitted' = <<[event |-> "roomUpdated", room |-> roomCode,
                           to |-> {t \in Sockets : roomCode \in joined1[t]},
                           roomInfo |-> roomData]>>
          /\ response' = [kind |-> "callback", success |-> TRUE, roomCode |-> roomCode]
          /\ request' = [event |-> "createRoom", socket |-> s]
  /\ UNCHANGED connected

RouteJoinRoom(s, roomCode) ==
  /\ connected[s] = "connected"
  /\ UNCHANGED server
  /\ request' = [event |-> "joinRoom", socket |-> s, roomCode |-> roomCode]
  /\ IF roomCode \notin DOMAIN gameRooms THEN
       /\ response' = [kind |-> "callback", success |-> FALSE, error |-> "Room not found"]
       /\ emitted' = <<>>
       /\ UNCHANGED <<gameRooms, socketRoomCode, socketRooms>>
     ELSE IF gameRooms[roomCode].gameState = "playing" THEN
       /\ response' = [kind |-> "callback", success |-> FALSE, error |-> "Game already in progress"]
       /\ emitted' = <<>>
       /\ UNCHANGED <<gameRooms, socketRoomCode, socketRooms>>
     ELSE IF RouteRoomIsFull(gameRooms[roomCode]) THEN
       /\ response' = [kind |-> "callback", success |-> FALSE, error |-> "Room is full"]
       /\ emitted' = <<>>
       /\ UNCHANGED <<gameRooms, socketRoomCode, socketRooms>>
     ELSE
       LET rooms1 == [gameRooms EXCEPT ![roomCode].players =
                        Append(@, RouteNewPlayer(s, FALSE))]
           joined1 == [socketRooms EXCEPT ![s] = @ \cup {roomCode}]
       IN /\ gameRooms' = rooms1
          /\ socketRooms' = joined1
          /\ socketRoomCode' = [socketRoomCode EXCEPT ![s] = roomCode]
          /\ emitted' = <<[event |-> "roomUpdated", room |-> roomCode,
                           to |-> {t \in Sockets : roomCode \in joined1[t]},
                           roomInfo |-> rooms1[roomCode]]>>
          /\ response' = [kind |-> "callback", success |-> TRUE, roomCode |-> roomCode]
  /\ UNCHANGED connected

RouteToggleReady(s) ==
  /\ connected[s] = "connected"
  /\ UNCHANGED server
  /\ request' = [event |-> "toggleReady", socket |-> s]
  /\ LET roomCode == socketRoomCode[s] IN
     IF Falsy(roomCode) \/ roomCode \notin DOMAIN gameRooms THEN
       /\ response' = [kind |-> "callback", success |-> FALSE, error |-> "Room not found"]
       /\ emitted' = <<>>
       /\ UNCHANGED gameRooms
     ELSE
       LET i == findIndex(gameRooms[roomCode].players, s) IN
       IF i = 0 THEN
         /\ response' = [kind |-> "callback", success |-> FALSE,
                         error |-> "Player not found in room"]
         /\ emitted' = <<>>
         /\ UNCHANGED gameRooms
       ELSE
         LET rooms1 == [gameRooms EXCEPT ![roomCode].players[i].isReady = ~@] IN
         /\ gameRooms' = rooms1
         /\ emitted' = <<[event |-> "roomUpdated", room |-> roomCode,
                          to |-> InRoom(roomCode),
                          roomInfo |-> rooms1[roomCode]]>>
         /\ response' = [kind |-> "callback", success |-> TRUE,
                         isReady |-> rooms1[roomCode].players[i].isReady]
  /\ UNCHANGED <<socketRoomCode, socketRooms, connected>>

\* { shape, color } entries of generateRandomPieces
RouteShapes == <<[shape |-> "T", color |-> "purple"], [shape |-> "Square", color |-> "yellow"],
                 [shape |-> "Line", color |-> "cyan"], [shape |-> "Z", color |-> "red"],
                 [shape |-> "S", color |-> "green"], [shape |-> "L", color |-> "orange"],
                 [shape |-> "J", color |-> "blue"], [shape |-> "1x1", color |-> "teal"],
                 [shape |-> "2x1h", color |-> "pink"], [shape |-> "2x1v", color |-> "brown"]>>

RouteGenerateRandomPieces(now, shapeDraw) ==
  [i \in 1..PieceCount |->
     [id |-> now + (i - 1),
      shape |-> RouteShapes[shapeDraw[i] + 1].shape,
      color |-> RouteShapes[shapeDraw[i] + 1].color]]

\* the conditions of socket.on('startGame') that do not return early
RouteStartGuard(s) ==
  LET roomCode == socketRoomCode[s] IN
  /\ ~Falsy(roomCode)
  /\ roomCode \in DOMAIN gameRooms
  /\ LET players == gameRooms[roomCode].players
         i == findIndex(players, s)
     IN /\ i # 0
        /\ players[i].isHost
        /\ AllReady(players)

RouteStartGame(s) ==
  /\ connected[s] = "connected"
  /\ UNCHANGED server
  /\ request' = [event |-> "startGame", socket |-> s]
  /\ response' = NoResponse
  /\ IF RouteStartGuard(s) THEN
       \E now \in 0..MaxNow, shapeDraw \in ShapeDraws :
         LET roomCode == socketRoomCode[s]
             rooms1 == [gameRooms EXCEPT ![roomCode].gameState = "playing"]
         IN /\ gameRooms' = rooms1
            /\ emitted' = <<[event |-> "gameStarted", room |-> roomCode,
                             to |-> InRoom(roomCode),
                             roomInfo |-> rooms1[roomCode],
                             initialPieces |-> RouteGenerateRandomPieces(now, shapeDraw)]>>
     ELSE
       /\ emitted' = <<>>
       /\ UNCHANGED gameRooms
  /\ UNCHANGED <<socketRoomCode, socketRooms, connected>>

RouteUpdateGameState(s, board, score) ==
  /\ connected[s] = "connected"
  /\ UNCHANGED server
  /\ request' = [event |-> "updateGameState", socket |-> s]
  /\ response' = NoResponse
  /\ LET roomCode == socketRoomCode[s] IN
     IF Falsy(roomCode) \/ roomCode \notin DOMAIN gameRooms THEN
       emitted' = <<>>
     ELSE
       emitted' = <<[event |-> "opponentUpdated", room |-> roomCode,
                     to |-> InRoom(roomCode) \ {s},
                     playerId |-> s, board |-> board, score |-> score]>>
  /\ UNCHANGED <<gameRooms, socketRoomCode, socketRooms, connected>>

RouteGameOver(s) ==
  /\ connected[s] = "connected"
  /\ UNCHANGED server
  /\ request' = [event |-> "gameOver", socket |-> s]
  /\ response' = NoResponse
  /\ LET roomCode == socketRoomCode[s] IN
     IF Falsy(roomCode) \/ roomCode \notin DOMAIN gameRooms THEN
       /\ emitted' = <<>>
       /\ UNCHANGED gameRooms
     ELSE
       LET i == findIndex(gameRooms[roomCode].players, s) IN
       IF i = 0 THEN
         /\ emitted' = <<>>
         /\ UNCHANGED gameRooms
       ELSE
         /\ gameRooms' = [gameRooms EXCEPT ![roomCode].gameState = "finished"]
         /\ emitted' = <<[event |-> "gameFinished", room |-> roomCode,
                          to |-> InRoom(roomCode),
                          winnerId |-> gameRooms[roomCode].players[i].id,
                          winnerName |-> gameRooms[roomCode].players[i].username]>>
  /\ UNCHANGED <<socketRoomCode, socketRooms, connected>>

\* function handlePlayerDisconnect(socket) of the API route, called for
\* `event` with socket.io membership `joined`
RouteHandlePlayerDisconnect(s, joined, event) ==
  LET roomCode == socketRoomCode[s] IN
  IF Falsy(roomCode) \/ roomCode \notin DOMAIN gameRooms THEN
    /\ request' = [event |-> event, socket |-> s, roomCode |-> roomCode, playerIndex |-> 0]
    /\ emitted' = <<>>
    /\ socketRooms' = joined
    /\ UNCHANGED <<gameRooms, socketRoomCode>>
  ELSE
    LET roomData == gameRooms[roomCode]
        playerIndex == findIndex(roomData.players, s)
    IN
    /\ request' = [event |-> event, socket |-> s, roomCode |-> roomCode,
                   playerIndex |-> playerIndex]
    /\ IF playerIndex = 0 THEN
         /\ emitted' = <<>>
         /\ socketRooms' = joined
         /\ UNCHANGED <<gameRooms, socketRoomCode>>
       ELSE
         LET isHost == roomData.players[playerIndex].isHost
             remaining == splice(roomData.players, playerIndex)
             joined1 == [joined EXCEPT ![s] = @ \ {roomCode}]
             to == {t \in Sockets : roomCode \in joined1[t]}
         IN
         /\ socketRooms' = joined1
         /\ socketRoomCode' = [socketRoomCode EXCEPT ![s] = Null]
         /\ IF Len(remaining) = 0 THEN
              /\ gameRooms' = MapDelete(gameRooms, roomCode)
              /\ emitted' = <<>>
            ELSE
              LET roomData1 == [roomData EXCEPT !.players = RouteReassignHost(remaining, isHost)]
                  aborted == roomData1.gameState = "playing"
                  roomData2 == IF aborted
                               THEN [roomData1 EXCEPT !.gameState = "waiting"]
                               ELSE roomData1
              IN /\ gameRooms' = [gameRooms EXCEPT ![roomCode] = roomData2]
                 /\ emitted' =
                      <<[event |-> "playerLeft", room |-> roomCode, to |-> to,
                         playerId |-> s, roomInfo |-> roomData1]>>
                      \o (IF aborted
                          THEN <<[event |-> "gameAborted", room |-> roomCode, to |-> to,
                                  reason |-> <<"A player disconnected">>]>>
                          ELSE <<>>)

RouteLeaveRoom(s) ==
  /\ connected[s] = "connected"
  /\ UNCHANGED server
  /\ response' = NoResponse
  /\ RouteHandlePlayerDisconnect(s, socketRooms, "leaveRoom")
  /\ UNCHANGED connected

RouteGetRoomInfo(s, roomCode) ==
  /\ connected[s] = "connected"
  /\ UNCHANGED server
  /\ request' = [event |-> "getRoomInfo", socket |-> s, roomCode |-> roomCode]
  /\ emitted' = <<>>
  /\ IF roomCode \notin DOMAIN gameRooms THEN
       /\ response' = [kind |-> "callback", success |-> FALSE, error |-> "Room not found"]
       /\ UNCHANGED <<socketRoomCode, socketRooms>>
     ELSE
       /\ socketRooms' = [socketRooms EXCEPT ![s] = @ \cup {roomCode}]
       /\ socketRoomCode' = [socketRoomCode EXCEPT ![s] = roomCode]
       /\ response' = [kind |-> "callback", success |-> TRUE, roomInfo |-> gameRooms[roomCode]]
  /\ UNCHANGED <<gameRooms, connected>>

RouteDisconnect(s) ==
  /\ connected[s] = "connected"
  /\ UNCHANGED server
  /\ connected' = [connected EXCEPT ![s] = "disconnected"]
  /\ response' = NoResponse
  /\ RouteHandlePlayerDisconnect(s, [socketRooms EXCEPT ![s] = {}], "disconnect")

NextRoute ==
  \/ \E s \in Sockets : Connect(s) /\ UNCHANGED clientVars
  \/ \E s \in Sockets : RouteCreateRoom(s) /\ UNCHANGED clientVars
  \/ \E s \in Sockets, roomCode \in RouteJoinInputs : RouteJoinRoom(s, roomCode) /\ UNCHANGED clientVars
  \/ \E s \in Sockets : RouteToggleReady(s) /\ UNCHANGED clientVars
  \/ \E s \in Sockets : RouteStartGame(s) /\ UNCHANGED clientVars
  \/ \E s \in Sockets, board \in Boards, score \in Scores : RouteUpdateGameState(s, board, score) /\ UNCHANGED clientVars
  \/ \E s \in Sockets : RouteGameOver(s) /\ UNCHANGED clientVars
  \/ \E s \in Sockets : RouteLeaveRoom(s) /\ UNCHANGED clientVars
  \/ \E s \in Sockets, roomCode \in RouteJoinInputs : RouteGetRoomInfo(s, roomCode) /\ UNCHANGED clientVars
  \/ \E s \in Sockets : RouteDisconnect(s) /\ UNCHANGED clientVars

SpecRoute == InitRoute /\ [][NextRoute]_vars

\* either implementation, chosen at start
InitAll == Init \/ InitRoute

NextAll ==
  \/ server = "standalone" /\ Next
  \/ server = "route" /\ NextRoute

SpecAll == InitAll /\ [][NextAll]_vars

\* ======================================================================
\* The browser clients (src/app/lib/useSocket.tsx and the page components of
\* src/app/game/multiplayer/lobby/page.tsx) talking to the standalone server.
\* A request a client emits waits in outbox until the server serves it; a
\* broadcast waits in the inbox of each receiver until that client handles
\* it; both are delivered in emission order. The board and the pieces left
\* in hand are not part of the state: the points of a placement and whether
\* a legal move is left after it are inputs of ClientPieceDrop.

\* the number of requests and broadcasts on their way
RECURSIVE SumLen(_, _)
SumLen(q, S) ==
  IF S = {} THEN 0
  ELSE LET t == CHOOSE x \in S : TRUE IN Len(q[t]) + SumLen(q, S \ {t})

InFlight == SumLen(outbox, Sockets) + SumLen(inbox, Sockets)

\* useSocket.createRoom, from the form the lobby shows while roomInfo is null
ClientCreateRoom(s) ==
  /\ connected[s] = "connected"
  /\ page[s] = "lobby"
  /\ globalRoomInfo[s] = <<>>
  /\ InFlight <= MaxPending
  /\ opsDone[s] < MaxClientOps
  /\ opsDone' = [opsDone EXCEPT ![s] = @ + 1]
  /\ outbox' = [outbox EXCEPT ![s] = Append(@, [event |-> "createRoom"])]
  /\ leftRoom' = [leftRoom EXCEPT ![s] = FALSE]
  /\ UNCHANGED <<inbox, globalRoomInfo, page, gameStatus, gamePieces, gameScore, effectDue>>
  /\ UNCHANGED serverVars

\* useSocket.joinRoom, from the same form
ClientJoinRoom(s, roomCode) ==
  /\ connected[s] = "connected"
  /\ page[s] = "lobby"
  /\ globalRoomInfo[s] = <<>>
  /\ InFlight <= MaxPending
  /\ opsDone[s] < MaxClientOps
  /\ opsDone' = [opsDone EXCEPT ![s] = @ + 1]
  /\ outbox' = [outbox EXCEPT ![s] = Append(@, [event |-> "joinRoom", roomCode |-> roomCode])]
  /\ leftRoom' = [leftRoom EXCEPT ![s] = FALSE]
  /\ UNCHANGED <<inbox, globalRoomInfo, page, gameStatus, gamePieces, gameScore, effectDue>>
  /\ UNCHANGED serverVars

\* useSocket.toggleReady, from the lobby's ready button (disabled unless the
\* room info says waiting)
ClientToggleReady(s) ==
  /\ connected[s] = "connected"
  /\ page[s] = "lobby"
  /\ globalRoomInfo[s] # <<>>
  /\ globalRoomInfo[s][1].gameState = "waiting"
  /\ InFlight <= MaxPending
  /\ opsDone[s] < MaxClientOps
  /\ opsDone' = [opsDone EXCEPT ![s] = @ + 1]
  /\ outbox' = [outbox EXCEPT ![s] = Append(@, [event |-> "toggleReady"])]
  /\ UNCHANGED <<inbox, globalRoomInfo, page, gameStatus, gamePieces, gameScore, effectDue, leftRoom>>
  /\ UNCHANGED serverVars

\* MultiplayerLobby.isHost: the first host entry is the entry with this
\* client's username
ClientIsHost(s, info) ==
  \E h, u \in 1..Len(info.players) :
    /\ info.players[h].isHost
    /\ \A k \in 1..(h - 1) : ~info.players[k].isHost
    /\ info.players[u].username = UsernameOf(s)
    /\ \A k \in 1..(u - 1) : info.players[k].username # UsernameOf(s)
    /\ info.players[h].id = info.players[u].id

\* MultiplayerLobby.handleStartGame
ClientStartGame(s) ==
  /\ connected[s] = "connected"
  /\ page[s] = "lobby"
  /\ globalRoomInfo[s] # <<>>
  /\ ClientIsHost(s, globalRoomInfo[s][1])
  /\ Len(globalRoomInfo[s][1].players) >= 2
  /\ AllReady(globalRoomInfo[s][1].players)
  /\ InFlight <= MaxPending
  /\ opsDone[s] < MaxClientOps
  /\ opsDone' = [opsDone EXCEPT ![s] = @ + 1]
  /\ outbox' = [outbox EXCEPT ![s] = Append(@, [event |-> "startGame"])]
  /\ UNCHANGED <<inbox, globalRoomInfo, page, gameStatus, gamePieces, gameScore, effectDue, leftRoom>>
  /\ UNCHANGED serverVars

\* useSocket.leaveRoom: socket.emit('leaveRoom'); updateRoomInfo(null). Called
\* by the lobby's leave button and by the game page's handleReturnToLobby,
\* which then goes back to the lobby page
ClientLeaveRoom(s) ==
  /\ connected[s] = "connected"
  /\ page[s] = "game" \/ globalRoomInfo[s] # <<>>
  /\ InFlight <= MaxPending
  /\ opsDone[s] < MaxClientOps
  /\ opsDone' = [opsDone EXCEPT ![s] = @ + 1]
  /\ outbox' = [outbox EXCEPT ![s] = Append(@, [event |-> "leaveRoom"])]
  /\ globalRoomInfo' = [globalRoomInfo EXCEPT ![s] = <<>>]
  /\ page' = [page EXCEPT ![s] = "lobby"]
  /\ effectDue' = [effectDue EXCEPT ![s] = FALSE]
  /\ leftRoom' = [leftRoom EXCEPT ![s] = TRUE]
  /\ UNCHANGED <<inbox, gameStatus, gamePieces, gameScore>>
  /\ UNCHANGED serverVars

\* the lobby's redirect effect: router.push to the game page once the room
\* info says playing; MultiplayerGame mounts with its initial state
LobbyRedirect(s) ==
  /\ page[s] = "lobby"
  /\ globalRoomInfo[s] # <<>>
  /\ globalRoomInfo[s][1].gameState = "playing"
  /\ page' = [page EXCEPT ![s] = "game"]
  /\ gameStatus' = [gameStatus EXCEPT ![s] = "loading"]
  /\ gamePieces' = [gamePieces EXCEPT ![s] = "none"]
  /\ gameScore' = [gameScore EXCEPT ![s] = 0]
  /\ effectDue' = [effectDue EXCEPT ![s] = TRUE]
  /\ UNCHANGED <<outbox, inbox, globalRoomInfo, leftRoom>>
  /\ UNCHANGED opsDone
  /\ UNCHANGED serverVars

\* the game page's room-info effect, run after mount and after a change of
\* roomInfo or pieces.length
GameRoomInfoEffect(s) ==
  /\ page[s] = "game"
  /\ effectDue[s]
  /\ IF connected[s] = "connected" /\ globalRoomInfo[s] # <<>> THEN
       /\ gameStatus' = [gameStatus EXCEPT ![s] = globalRoomInfo[s][1].gameState]
       /\ IF globalRoomInfo[s][1].gameState = "playing" /\ gamePieces[s] = "none" THEN
            /\ gamePieces' = [gamePieces EXCEPT ![s] = "local"]
            /\ UNCHANGED effectDue
          ELSE
            /\ effectDue' = [effectDue EXCEPT ![s] = FALSE]
            /\ UNCHANGED gamePieces
     ELSE
       /\ effectDue' = [effectDue EXCEPT ![s] = FALSE]
       /\ UNCHANGED <<gameStatus, gamePieces>>
  /\ UNCHANGED <<outbox, inbox, globalRoomInfo, page, gameScore, leftRoom>>
  /\ UNCHANGED opsDone
  /\ UNCHANGED serverVars

\* the points of one placement, in units of calculateScore's base points
PointsEarned == 0..MaxScore

\* MultiplayerGame.handlePieceDrop for a placement that fits: when no legal
\* move is left (`stuck`) it calls signalGameOver() first, then
\* updateGameState(clearedBoard, score + pointsEarned, ...)
ClientPieceDrop(s, board, pointsEarned, stuck) ==
  /\ connected[s] = "connected"
  /\ page[s] = "game"
  /\ globalRoomInfo[s] # <<>>
  /\ gameStatus[s] = "playing"
  /\ gamePieces[s] # "none"
  /\ gameScore[s] + pointsEarned <= MaxScore
  /\ LET newScore == gameScore[s] + pointsEarned
         sent == (IF stuck THEN <<[event |-> "gameOver"]>> ELSE <<>>)
                 \o <<[event |-> "updateGameState", board |-> board, score |-> newScore]>>
     IN /\ InFlight <= MaxPending
        /\ opsDone[s] < MaxClientOps
        /\ opsDone' = [opsDone EXCEPT ![s] = @ + 1]
        /\ outbox' = [outbox EXCEPT ![s] = @ \o sent]
        /\ gameScore' = [gameScore EXCEPT ![s] = newScore]
  /\ gameStatus' = [gameStatus EXCEPT ![s] = IF stuck THEN "gameOver" ELSE @]
  /\ effectDue' = [effectDue EXCEPT ![s] = TRUE]
  /\ UNCHANGED <<inbox, globalRoomInfo, page, gamePieces, leftRoom>>
  /\ UNCHANGED serverVars

\* the broadcasts of `events` that go to socket t, in emission order
Packets(events, t) ==
  LET ForT(m) == t \in m.to IN SelectSeq(events, ForT)

\* the server serves the oldest request of client s with the handler of its
\* event; every broadcast of the handler is put in its receivers' inboxes
Serve(s) ==
  /\ outbox[s] # <<>>
  /\ LET m == Head(outbox[s]) IN
       \/ m.event = "createRoom" /\ CreateRoom(s)
       \/ m.event = "joinRoom" /\ JoinRoom(s, m.roomCode)
       \/ m.event = "toggleReady" /\ ToggleReady(s)
       \/ m.event = "startGame" /\ StartGame(s)
       \/ m.event = "updateGameState" /\ UpdateGameState(s, m.board, m.score)
       \/ m.event = "gameOver" /\ GameOver(s)
       \/ m.event = "leaveRoom" /\ LeaveRoom(s)
  /\ \A t \in Sockets : Len(inbox[t]) + Len(Packets(emitted', t)) <= MaxInbox
  /\ outbox' = [outbox EXCEPT ![s] = Tail(@)]
  /\ inbox' = [t \in Sockets |-> inbox[t] \o Packets(emitted', t)]
  /\ UNCHANGED <<globalRoomInfo, page, gameStatus, gamePieces, gameScore, effectDue, leftRoom, opsDone>>

\* client s handles the oldest broadcast sent to it: useSocket's listeners
\* (onRoomUpdated, onPlayerLeft, onGameStarted) are registered on every page,
\* those of MultiplayerGame (onGameStarted, onGameFinished, onGameAborted,
\* onOpponentUpdated) only while the game page is mounted
Deliver(s) ==
  /\ inbox[s] # <<>>
  /\ inbox' = [inbox EXCEPT ![s] = Tail(@)]
  /\ LET m == Head(inbox[s])
         onGame == page[s] = "game"
     IN
     /\ globalRoomInfo' =
          IF m.event \in {"roomUpdated", "playerLeft", "gameStarted"}
          THEN [globalRoomInfo EXCEPT ![s] = <<m.roomInfo>>]
          ELSE globalRoomInfo
     /\ gameStatus' =
          IF ~onGame THEN gameStatus
          ELSE IF m.event = "gameStarted" THEN [gameStatus EXCEPT ![s] = "playing"]
          ELSE IF m.event = "gameFinished" THEN [gameStatus EXCEPT ![s] = "gameOver"]
          ELSE IF m.event = "gameAborted" THEN [gameStatus EXCEPT ![s] = "disconnected"]
          ELSE gameStatus
     /\ gamePieces' =
          IF onGame /\ m.event = "gameStarted"
          THEN [gamePieces EXCEPT ![s] = IF Len(m.initialPieces) > 0 THEN "server" ELSE "local"]
          ELSE gamePieces
     /\ effectDue' =
          IF onGame /\ m.event \in {"roomUpdated", "playerLeft", "gameStarted"}
          THEN [effectDue EXCEPT ![s] = TRUE]
          ELSE effectDue
  /\ UNCHANGED <<outbox, page, gameScore, leftRoom>>
  /\ UNCHANGED opsDone
  /\ UNCHANGED serverVars

NextClient ==
  \/ \E s \in Sockets : Connect(s) /\ UNCHANGED clientVars
  \/ \E s \in Sockets : ClientCreateRoom(s)
  \/ \E s \in Sockets, roomCode \in JoinInputs : ClientJoinRoom(s, roomCode)
  \/ \E s \in Sockets : ClientToggleReady(s)
  \/ \E s \in Sockets : ClientStartGame(s)
  \/ \E s \in Sockets : ClientLeaveRoom(s)
  \/ \E s \in Sockets : LobbyRedirect(s)
  \/ \E s \in Sockets : GameRoomInfoEffect(s)
  \/ \E s \in Sockets, board \in Boards, pointsEarned \in PointsEarned, stuck \in BOOLEAN :
       ClientPieceDrop(s, board, pointsEarned, stuck)
  \/ \E s \in Sockets : Serve(s)
  \/ \E s \in Sockets : Deliver(s)

SpecClient == Init /\ [][NextClient]_vars

\* ======================================================================
\* Properties
\* ======================================================================
Standalone == server = "standalone"

Hosts(players) == {i \in 1..Len(players) : players[i].isHost}

CountEvent(events, name) == Cardinality({k \in 1..Len(events) : events[k].event = name})

\* the last request was a leaveRoom or disconnect of a socket found in its room
IsRemoval(req) ==
  /\ req.event \in {"leaveRoom", "disconnect"}
  /\ req.playerIndex # 0

\* C1: in every server implementation every existing room's player list has
\* at most 2 entries, in every reachable state.
C1_AtMostTwoPlayers ==
  \A c \in DOMAIN gameRooms : Len(gameRooms[c].players) <= 2

\* a join was just refused because the room already holds two players
C1_Witness ==
  /\ request.event = "joinRoom"
  /\ ~response.success
  /\ response.error = "Room is full"
  /\ \E c \in DOMAIN gameRooms : Len(gameRooms[c].players) = 2

\* C2: in the standalone server every existing room has exactly one player
\* with isHost = true, in every reachable state.
C2_ExactlyOneHost ==
  Standalone =>
    \A c \in DOMAIN gameRooms : Cardinality(Hosts(gameRooms[c].players)) = 1

\* a player was just removed from a room that lives on with its one remaining
\* player as host
C2_Witness ==
  /\ Standalone
  /\ IsRemoval(request)
  /\ request.roomCode \in DOMAIN gameRooms
  /\ Len(gameRooms[request.roomCode].players) = 1
  /\ gameRooms[request.roomCode].players[1].id # request.socket
  /\ gameRooms[request.roomCode].players[1].isHost

\* C3: in the standalone server a room becomes Playing only by a startGame
\* request of a socket that is then the room's host, while the room is Waiting,
\* has exactly 2 players and every player is ready.
C3_PlayingOnlyByGuardedStart ==
  [][Standalone =>
       \A c \in DOMAIN gameRooms' :
         (/\ gameRooms'[c].gameState = "playing"
          /\ (c \notin DOMAIN gameRooms \/ gameRooms[c].gameState # "playing"))
         => /\ request'.event = "startGame"
            /\ socketRoomCode[request'.socket] = c
            /\ c \in DOMAIN gameRooms
            /\ gameRooms[c].gameState = "waiting"
            /\ Len(gameRooms[c].players) = 2
            /\ \A i \in 1..Len(gameRooms[c].players) : gameRooms[c].players[i].isReady
            /\ \E i \in 1..Len(gameRooms[c].players) :
                 /\ gameRooms[c].players[i].id = request'.socket
                 /\ gameRooms[c].players[i].isHost]_vars

\* the start conditions fail for socket s: s is in no room, or is not
\* the host, or the room has fewer than 2 players, or some player is not ready
C4_GuardFails(s) ==
  LET c == socketRoomCode[s] IN
  \/ Falsy(c)
  \/ c \notin DOMAIN gameRooms
  \/ \A i \in 1..Len(gameRooms[c].players) : gameRooms[c].players[i].id # s
  \/ \E i \in 1..Len(gameRooms[c].players) :
       /\ gameRooms[c].players[i].id = s
       /\ ~gameRooms[c].players[i].isHost
       /\ \A j \in 1..(i - 1) : gameRooms[c].players[j].id # s
  \/ Len(gameRooms[c].players) < 2
  \/ \E i \in 1..Len(gameRooms[c].players) : ~gameRooms[c].players[i].isReady

\* C4: in the standalone server a startGame request whose guard fails leaves
\* every room, every socket's room reference and membership unchanged and
\* produces no broadcast and no response.
C4_FailedStartChangesNothing ==
  [][(Standalone /\ request'.event = "startGame" /\ C4_GuardFails(request'.socket))
       => /\ gameRooms' = gameRooms
          /\ socketRoomCode' = socketRoomCode
          /\ socketRooms' = socketRooms
          /\ emitted' = <<>>
          /\ response' = NoResponse]_vars

\* a non-host just asked to start a full room in which everybody is ready
C4_Witness ==
  /\ Standalone
  /\ request.event = "startGame"
  /\ emitted = <<>>
  /\ LET c == socketRoomCode[request.socket] IN
     /\ c \in DOMAIN gameRooms
     /\ Len(gameRooms[c].players) = 2
     /\ gameRooms[c].gameState = "waiting"
     /\ \A i \in 1..2 : gameRooms[c].players[i].isReady
     /\ gameRooms[c].players[2].id = request.socket
     /\ gameRooms[c].players[1].id # request.socket
     /\ ~gameRooms[c].players[2].isHost

\* C5: in the standalone server a Finished room stays Finished while it
\* exists, whatever startGame, toggleReady, updateGameState, gameOver, joinRoom,
\* leaveRoom or disconnect request is served.
C5_FinishedIsTerminal ==
  [][(Standalone /\ request'.event # "createRoom") =>
       \A c \in DOMAIN gameRooms :
         (gameRooms[c].gameState = "finished" /\ c \in DOMAIN gameRooms')
         => gameRooms'[c].gameState = "finished"]_vars

\* C6: in the standalone server no stored room has an empty player list, and a
\* getRoomInfo that succeeds names a room that exists (so it fails for a
\* deleted room's code).
C6_NoEmptyRoom ==
  Standalone =>
    /\ \A c \in DOMAIN gameRooms : Len(gameRooms[c].players) > 0
    /\ (request.event = "getRoomInfo" /\ response.success)
         => response.roomInfo.roomCode \in DOMAIN gameRooms

\* the last player of a room just left and the room is gone
C6_Witness ==
  /\ Standalone
  /\ IsRemoval(request)
  /\ request.roomCode \notin DOMAIN gameRooms

\* C7: in either server, when a room's host leaves or disconnects and a
\* player remains, the first remaining player in room order is host right
\* afterwards; when a non-host leaves, the isHost flags of the others are
\* unchanged.
C7_HostReassignment ==
  [][IsRemoval(request') =>
       LET c == request'.roomCode
           i == request'.playerIndex
           before == gameRooms[c].players
           rest == splice(before, i)
       IN Len(rest) > 0 =>
            /\ c \in DOMAIN gameRooms'
            /\ Len(gameRooms'[c].players) = Len(rest)
            /\ \A k \in 1..Len(rest) : gameRooms'[c].players[k].id = rest[k].id
            /\ before[i].isHost => gameRooms'[c].players[1].isHost
            /\ ~before[i].isHost =>
                 \A k \in 1..Len(rest) : gameRooms'[c].players[k].isHost = rest[k].isHost]_vars

\* the first player of a two-player room (its host) was just removed and the
\* other player is now host
C7_Witness ==
  /\ IsRemoval(request)
  /\ request.playerIndex = 1
  /\ request.roomCode \in DOMAIN gameRooms
  /\ Len(gameRooms[request.roomCode].players) = 1
  /\ gameRooms[request.roomCode].players[1].id # request.socket
  /\ gameRooms[request.roomCode].players[1].isHost
  /\ CountEvent(emitted, "playerLeft") = 1

C9_AbortKeepsReady ==
  [][(Standalone /\ IsRemoval(request')) =>
       LET c == request'.roomCode
           before == splice(gameRooms[c].players, request'.playerIndex)
       IN (gameRooms[c].gameState = "playing" /\ Len(before) > 0)
          => /\ c \in DOMAIN gameRooms'
             /\ Len(gameRooms'[c].players) = Len(before)
             /\ \A k \in 1..Len(before) :
                  /\ gameRooms'[c].players[k].id = before[k].id
                  /\ gameRooms'[c].players[k].isReady = before[k].isReady]_vars

\* a removal has just aborted a match and the remaining player is still ready
C9_Witness ==
  /\ Standalone
  /\ IsRemoval(request)
  /\ CountEvent(emitted, "gameAborted") = 1
  /\ request.roomCode \in DOMAIN gameRooms
  /\ Len(gameRooms[request.roomCode].players) = 1
  /\ gameRooms[request.roomCode].players[1].isReady

\* C10: in the standalone server a room becomes Finished only from Playing, and
\* exactly at the gameOver request after which every player's gameOver flag is
\* true; a gameOver request in a Waiting room never changes gameState.
C10_FinishedOnlyFromPlaying ==
  [][Standalone =>
       \A c \in DOMAIN gameRooms' :
         /\ (/\ gameRooms'[c].gameState = "finished"
             /\ (c \notin DOMAIN gameRooms \/ gameRooms[c].gameState # "finished"))
            => /\ c \in DOMAIN gameRooms
               /\ gameRooms[c].gameState = "playing"
               /\ request'.event = "gameOver"
               /\ \A i \in 1..Len(gameRooms'[c].players) : gameRooms'[c].players[i].gameOver
         /\ (/\ request'.event = "gameOver"
             /\ c \in DOMAIN gameRooms
             /\ gameRooms[c].gameState = "waiting")
            => gameRooms'[c].gameState = "waiting"]_vars

\* the entry of room c that a handler serving socket s works on
\* (players.find(p => p.id === s)) has its gameOver flag set
AlreadyDone(c, s) ==
  \E i \in 1..Len(gameRooms[c].players) :
    /\ gameRooms[c].players[i].id = s
    /\ gameRooms[c].players[i].gameOver
    /\ \A j \in 1..(i - 1) : gameRooms[c].players[j].id # s

\* C11: in the standalone server a gameOver request of a player whose gameOver
\* flag is already true changes no room and emits no gameFinished, so one match
\* emits gameFinished once however many gameOver requests are sent.
C11_RepeatedGameOverNoEffect ==
  [][(Standalone /\ request'.event = "gameOver") =>
       LET s == request'.socket
           c == socketRoomCode[s]
       IN (c \in DOMAIN gameRooms /\ AlreadyDone(c, s))
          => /\ gameRooms' = gameRooms
             /\ CountEvent(emitted', "gameFinished") = 0]_vars

\* C12: in the standalone server the winner named in gameFinished is the player
\* whose stored score is greatest, and among players of equal greatest score
\* the first in room order; the broadcast lists the stored scores.
C12_WinnerHasGreatestScore ==
  Standalone =>
    \A k \in 1..Len(emitted) :
      emitted[k].event = "gameFinished" =>
        /\ emitted[k].room \in DOMAIN gameRooms
        /\ LET stored == gameRooms[emitted[k].room].players
               listed == emitted[k].players
           IN /\ Len(listed) = Len(stored)
              /\ \A i \in 1..Len(stored) :
                   /\ listed[i].id = stored[i].id
                   /\ listed[i].score = stored[i].score
              /\ \E i \in 1..Len(stored) :
                   /\ emitted[k].winnerId = stored[i].id
                   /\ emitted[k].winnerName = stored[i].username
                   /\ \A j \in 1..Len(stored) : stored[j].score <= stored[i].score
                   /\ \A j \in 1..(i - 1) : stored[j].score < stored[i].score

\* a match of two different players just ended in a tie above zero and the
\* first player in room order was named winner
C12_Witness ==
  /\ Standalone
  /\ request.event = "gameOver"
  /\ CountEvent(emitted, "gameFinished") = 1
  /\ LET stored == gameRooms[emitted[1].room].players IN
     /\ Len(stored) = 2
     /\ stored[1].id # stored[2].id
     /\ stored[1].score = stored[2].score
     /\ stored[1].score > 0
     /\ emitted[1].winnerId = stored[1].id

\* the last handler refused its request with `error` through the callback
Refused(resp, error) ==
  /\ resp.kind = "callback"
  /\ ~resp.success
  /\ resp.error = error

\* C13: in either server joinRoom fails with "Room not found" when the code is
\* absent, else with "Game already in progress" when the room is not Waiting,
\* else with "Room is full" when the room has 2 players, and else appends the
\* caller as last player with isHost = false and isReady = false.
C13_JoinOutcome ==
  [][request'.event = "joinRoom" =>
       LET c == request'.roomCode
           s == request'.socket
       IN IF c \notin DOMAIN gameRooms THEN Refused(response', "Room not found")
          ELSE IF gameRooms[c].gameState # "waiting"
            THEN Refused(response', "Game already in progress")
          ELSE IF Len(gameRooms[c].players) >= 2 THEN Refused(response', "Room is full")
          ELSE LET before == gameRooms[c].players
                   after == gameRooms'[c].players
               IN /\ response'.kind = "callback"
                  /\ response'.success
                  /\ Len(after) = Len(before) + 1
                  /\ \A i \in 1..Len(before) : after[i] = before[i]
                  /\ after[Len(after)].id = s
                  /\ ~after[Len(after)].isHost
                  /\ ~after[Len(after)].isReady]_vars

\* C14: in the standalone server a joinRoom request that fails (code absent,
\* room not Waiting, or room full) changes no room, no socket's room reference
\* and no membership, and produces only a failure response to the caller: no
\* broadcast is emitted.
C14_FailedJoinChangesNothing ==
  [][(/\ Standalone
      /\ request'.event = "joinRoom"
      /\ LET c == request'.roomCode IN
         \/ c \notin DOMAIN gameRooms
         \/ gameRooms[c].gameState # "waiting"
         \/ Len(gameRooms[c].players) >= 2)
       => /\ gameRooms' = gameRooms
          /\ socketRoomCode' = socketRoomCode
          /\ socketRooms' = socketRooms
          /\ emitted' = <<>>
          /\ response'.kind = "callback"
          /\ ~response'.success]_vars

\* a join of a room whose match is running was just refused
C14_Witness ==
  /\ Standalone
  /\ request.event = "joinRoom"
  /\ Refused(response, "Game already in progress")
  /\ emitted = <<>>
  /\ request.roomCode \in DOMAIN gameRooms
  /\ gameRooms[request.roomCode].gameState = "playing"
  /\ Len(gameRooms[request.roomCode].players) = 2

\* C15: in the standalone server the opponentUpdated that an updateGameState
\* request produces goes to the other players of the room only: the requesting
\* socket is not among its recipients.
C15_RelayExcludesSender ==
  (Standalone /\ request.event = "updateGameState") =>
    \A k \in 1..Len(emitted) :
      emitted[k].event = "opponentUpdated" => request.socket \notin emitted[k].to

\* C16: in either server an updateGameState request changes no room's
\* gameState, and when the caller's room is absent or not Playing it changes
\* nothing and emits no opponentUpdated.
C16_UpdateOnlyWhilePlaying ==
  [][request'.event = "updateGameState" =>
       LET c == socketRoomCode[request'.socket] IN
       /\ DOMAIN gameRooms' = DOMAIN gameRooms
       /\ \A r \in DOMAIN gameRooms : gameRooms'[r].gameState = gameRooms[r].gameState
       /\ (c \notin DOMAIN gameRooms \/ gameRooms[c].gameState # "playing")
            => /\ gameRooms' = gameRooms
               /\ socketRoomCode' = socketRoomCode
               /\ socketRooms' = socketRooms
               /\ CountEvent(emitted', "opponentUpdated") = 0]_vars

\* the connections that are players of room c
PlayerConnections(c) ==
  {t \in Sockets : /\ connected[t] = "connected"
                   /\ \E i \in 1..Len(gameRooms[c].players) : gameRooms[c].players[i].id = t}

\* the last handler emitted `name` for room c to a set of sockets that
\* includes all of `receivers`
Delivered(name, c, receivers) ==
  \E k \in 1..Len(emitted) :
    /\ emitted[k].event = name
    /\ emitted[k].room = c
    /\ receivers \subseteq emitted[k].to

\* C17: in the standalone server every successful createRoom, joinRoom and
\* toggleReady emits a roomUpdated, and every leave that keeps the room alive
\* emits a playerLeft, that reaches every connection that is then a player of
\* the room, the requester of a create, join or toggle included.
C17_RoomEventsReachAllPlayers ==
  Standalone =>
    /\ (/\ request.event \in {"createRoom", "joinRoom", "toggleReady"}
        /\ response.kind = "callback"
        /\ response.success)
         => LET c == socketRoomCode[request.socket] IN
            /\ c \in DOMAIN gameRooms
            /\ Delivered("roomUpdated", c, PlayerConnections(c) \cup {request.socket})
    /\ (IsRemoval(request) /\ request.roomCode \in DOMAIN gameRooms)
         => Delivered("playerLeft", request.roomCode, PlayerConnections(request.roomCode))

\* what socket s observes of the last handler's broadcasts: socket.io sends
\* the packets of one socket over its one connection, in emission order
Observed(s) ==
  LET ForMe(e) == s \in e.to IN SelectSeq(emitted, ForMe)

\* the last handler's broadcasts for room c, in emission order
Produced(c) ==
  LET ForRoom(e) == e.room = c IN SelectSeq(emitted, ForRoom)

C19_SameBatchForAll ==
  (Standalone /\ request.event = "startGame" /\ CountEvent(emitted, "gameStarted") > 0) =>
    LET c == socketRoomCode[request.socket] IN
    /\ c \in DOMAIN gameRooms
    /\ \A t \in PlayerConnections(c) :
         \E k \in 1..Len(Observed(t)) :
           Observed(t)[k].event = "gameStarted" /\ Observed(t)[k].room = c
    /\ \A k \in 1..Len(emitted) :
         emitted[k].event = "gameStarted"
           => /\ emitted[k].room = c
              /\ Len(emitted[k].initialPieces) = PieceCount
              /\ emitted[k].initialPieces = gameRooms[c].currentPieces

\* a match of two different players was just started and each of them was
\* delivered the stored batch
C19_Witness ==
  /\ Standalone
  /\ request.event = "startGame"
  /\ CountEvent(emitted, "gameStarted") = 1
  /\ LET c == socketRoomCode[request.socket] IN
     /\ Cardinality(PlayerConnections(c)) = 2
     /\ PlayerConnections(c) \subseteq emitted[1].to
     /\ emitted[1].initialPieces = gameRooms[c].currentPieces

\* C20: in the standalone server the code a createRoom returns is not the code
\* of a room that exists when the request is served, and the request leaves
\* every existing room as it was, whatever the random draw.
C20_CreatedCodeIsFresh ==
  [][(Standalone /\ request'.event = "createRoom") =>
       /\ response'.roomCode \notin DOMAIN gameRooms
       /\ \A c \in DOMAIN gameRooms :
            /\ c \in DOMAIN gameRooms'
            /\ gameRooms'[c] = gameRooms[c]]_vars

\* socket s is in no room: it references no room, or a room that does not
\* exist, or a room that does not list it
NotInRoom(s) ==
  LET c == socketRoomCode[s] IN
  \/ Falsy(c)
  \/ c \notin DOMAIN gameRooms
  \/ \A i \in 1..Len(gameRooms[c].players) : gameRooms[c].players[i].id # s

\* C21: in the standalone server a leaveRoom or disconnect of a socket that is
\* in no room changes no room and emits nothing, and so does a leaveRoom or
\* disconnect that directly follows a removal of the same socket.
C21_LeaveOutsideRoomIsNoOp ==
  [][(Standalone /\ request'.event \in {"leaveRoom", "disconnect"}) =>
       /\ NotInRoom(request'.socket)
            => (gameRooms' = gameRooms /\ emitted' = <<>>)
       /\ (IsRemoval(request) /\ request.socket = request'.socket)
            => (gameRooms' = gameRooms /\ emitted' = <<>>)]_vars

\* a socket just asked to leave although it references no room, while a room
\* with a player exists
C21_Witness ==
  /\ Standalone
  /\ request.event = "leaveRoom"
  /\ request.roomCode = Null
  /\ request.playerIndex = 0
  /\ emitted = <<>>
  /\ \E c \in DOMAIN gameRooms : Len(gameRooms[c].players) > 0

\* room c has exactly the two players h and t, h its host and t not, both ready
RacedRoom(c, h, t) ==
  /\ c \in DOMAIN gameRooms
  /\ h # t
  /\ Len(gameRooms[c].players) = 2
  /\ \E i, j \in 1..2 :
       /\ gameRooms[c].players[i].id = h
       /\ gameRooms[c].players[i].isHost
       /\ gameRooms[c].players[j].id = t
       /\ ~gameRooms[c].players[j].isHost
  /\ \A i \in 1..2 : gameRooms[c].players[i].isReady

\* C22: in the standalone server, for a room of two ready players, the host's
\* startGame and the other player's disconnect end in the same state whichever
\* is served first: the disconnect leaves the room Waiting with the host as its
\* only player, with exactly one gameAborted if the match had been started and
\* none otherwise; a startGame of the host alone in its room changes nothing;
\* and no room is Playing with one player.
C22_StartDisconnectRace ==
  [][Standalone =>
       /\ \A c \in DOMAIN gameRooms : \A h, t \in Sockets :
            (/\ request'.event = "disconnect"
             /\ request'.socket = t
             /\ RacedRoom(c, h, t)
             /\ gameRooms[c].gameState \in {"waiting", "playing"})
            => /\ c \in DOMAIN gameRooms'
               /\ gameRooms'[c].gameState = "waiting"
               /\ Len(gameRooms'[c].players) = 1
               /\ gameRooms'[c].players[1].id = h
               /\ gameRooms'[c].players[1].isHost
               /\ CountEvent(emitted', "gameAborted")
                    = (IF gameRooms[c].gameState = "playing" THEN 1 ELSE 0)
       /\ (/\ request'.event = "startGame"
           /\ socketRoomCode[request'.socket] \in DOMAIN gameRooms
           /\ Len(gameRooms[socketRoomCode[request'.socket]].players) = 1)
            => (gameRooms' = gameRooms /\ emitted' = <<>>)
       /\ \A c \in DOMAIN gameRooms' :
            gameRooms'[c].gameState = "playing" => Len(gameRooms'[c].players) # 1]_vars

\* room c has exactly two players, of the different sockets s and o, and both
\* sockets reference c
TwoPlayersOf(c, s, o) ==
  /\ c \in DOMAIN gameRooms
  /\ s # o
  /\ socketRoomCode[s] = c
  /\ socketRoomCode[o] = c
  /\ Len(gameRooms[c].players) = 2
  /\ {gameRooms[c].players[1].id, gameRooms[c].players[2].id} = {s, o}

C24_ScoreNeverDecreases ==
  [][Standalone =>
       \A c \in DOMAIN gameRooms' :
         /\ \A i \in 1..Len(gameRooms'[c].players) : gameRooms'[c].players[i].score \in Nat
         /\ (/\ c \in DOMAIN gameRooms
             /\ gameRooms[c].gameState = "playing"
             /\ gameRooms'[c].gameState = "playing"
             /\ Len(gameRooms'[c].players) = Len(gameRooms[c].players))
            => \A i \in 1..Len(gameRooms[c].players) :
                 gameRooms'[c].players[i].score >= gameRooms[c].players[i].score]_vars

\* C25: in either server getRoomInfo succeeds, with the info of the room asked
\* for, only for a caller listed as a player of that room; for an absent room
\* or a caller that is not listed it fails and leaves the caller's room
\* reference and socket.io membership as they were.
C25_RoomInfoForMembersOnly ==
  [][request'.event = "getRoomInfo" =>
       LET c == request'.roomCode
           s == request'.socket
       IN IF /\ c \in DOMAIN gameRooms
             /\ \E i \in 1..Len(gameRooms[c].players) : gameRooms[c].players[i].id = s
          THEN /\ response'.kind = "callback"
               /\ response'.success
               /\ response'.roomInfo.roomCode = c
               /\ response'.roomInfo.gameState = gameRooms[c].gameState
               /\ Len(response'.roomInfo.players) = Len(gameRooms[c].players)
          ELSE /\ response'.kind = "callback"
               /\ ~response'.success
               /\ socketRoomCode' = socketRoomCode
               /\ socketRooms' = socketRooms]_vars

\* C26: in the standalone server every toggleReady request is answered through
\* its callback: with success and the new isReady when the caller is a player of
\* the room it references, with a failure otherwise.
C26_ToggleAlwaysAnswered ==
  (Standalone /\ request.event = "toggleReady") =>
    /\ response.kind = "callback"
    /\ response.success => response.isReady \in BOOLEAN

\* C27: in the standalone server no existing room lists a player whose
\* connection has disconnected (the disconnect path has run for it).
C27_NoPlayerOfClosedConnection ==
  Standalone =>
    \A s \in Sockets :
      connected[s] = "disconnected" =>
        \A c \in DOMAIN gameRooms :
          \A i \in 1..Len(gameRooms[c].players) : gameRooms[c].players[i].id # s

\* C28: in the standalone server, right after a successful startGame every
\* player of the started room has its gameOver flag false.
C28_StartClearsGameOver ==
  (Standalone /\ request.event = "startGame" /\ CountEvent(emitted, "gameStarted") > 0) =>
    LET c == socketRoomCode[request.socket] IN
    /\ c \in DOMAIN gameRooms
    /\ \A i \in 1..Len(gameRooms[c].players) : ~gameRooms[c].players[i].gameOver

\* C29: in the standalone server, while a room stays Playing no request
\* replaces the room's stored piece batch or emits another gameStarted for it.
C29_OneBatchPerMatch ==
  [][Standalone =>
       \A c \in DOMAIN gameRooms :
         (/\ gameRooms[c].gameState = "playing"
          /\ c \in DOMAIN gameRooms'
          /\ gameRooms'[c].gameState = "playing")
         => /\ gameRooms'[c].currentPieces = gameRooms[c].currentPieces
            /\ \A k \in 1..Len(emitted') :
                 ~(emitted'[k].event = "gameStarted" /\ emitted'[k].room = c)]_vars

\* the alphabet of room codes: the upper-case letters A-Z
CodeAlphabet == {RouteChars[i] : i \in 1..Len(RouteChars)}

\* C30: in either server the room code a createRoom returns has exactly 4
\* characters, all of them upper-case letters A-Z.
C30_CodeShape ==
  (request.event = "createRoom" /\ response.kind = "callback" /\ response.success) =>
    /\ Len(response.roomCode) = 4
    /\ \A i \in 1..Len(response.roomCode) : response.roomCode[i] \in CodeAlphabet

\* C31: in the standalone server a successful toggleReady negates the isReady
\* of the caller's entry (the first entry carrying the caller's id) and
\* returns the new value; every other entry, the caller's isHost, score and
\* position, the room's gameState and every other room stay as they were; and
\* when the same caller's previous request was also a successful toggleReady,
\* the flag is back at the value it had before that one, so the room is the
\* one before the two toggles.
C31_ToggleFrame ==
  [][(/\ Standalone
      /\ request'.event = "toggleReady"
      /\ response'.kind = "callback"
      /\ response'.success) =>
       LET s == request'.socket
           c == socketRoomCode[s]
       IN /\ c \in DOMAIN gameRooms
          /\ DOMAIN gameRooms' = DOMAIN gameRooms
          /\ \A d \in DOMAIN gameRooms : d # c => gameRooms'[d] = gameRooms[d]
          /\ LET before == gameRooms[c]
                 after == gameRooms'[c]
                 i == CHOOSE k \in 0..Len(before.players) :
                        /\ k # 0 => before.players[k].id = s
                        /\ \A j \in 1..Len(before.players) :
                             before.players[j].id = s => (k # 0 /\ k <= j)
             IN /\ i # 0
                /\ after.gameState = before.gameState
                /\ Len(after.players) = Len(before.players)
                /\ \A k \in 1..Len(before.players) :
                     /\ after.players[k].id = before.players[k].id
                     /\ after.players[k].isHost = before.players[k].isHost
                     /\ after.players[k].score = before.players[k].score
                     /\ k # i => after.players[k] = before.players[k]
                /\ after.players[i].isReady = ~before.players[i].isReady
                /\ after.players[i] = [before.players[i] EXCEPT !.isReady = ~@]
                /\ response'.isReady = after.players[i].isReady
                /\ (/\ request.event = "toggleReady"
                    /\ request.socket = s
                    /\ response.kind = "callback"
                    /\ response.success)
                     => /\ after.players[i].isReady = ~response.isReady
                        /\ [after EXCEPT !.players[i].isReady = ~@] = before]_vars

\* a player of a two-player room that was ready has toggled back to not
\* ready while the other player stayed ready
C31_Witness ==
  /\ Standalone
  /\ request.event = "toggleReady"
  /\ response.kind = "callback"
  /\ response.success
  /\ ~response.isReady
  /\ LET c == socketRoomCode[request.socket] IN
     /\ c \in DOMAIN gameRooms
     /\ Len(gameRooms[c].players) = 2
     /\ \E i, j \in 1..2 :
          /\ gameRooms[c].players[i].id = request.socket
          /\ ~gameRooms[c].players[i].isReady
          /\ gameRooms[c].players[j].id # request.socket
          /\ gameRooms[c].players[j].isReady

\* C32: in the API-route server a room becomes Finished only from Playing,
\* and only when every player of the room has sent gameOver; in particular
\* not by the first request after the start of a room that has a player other
\* than the sender.
C32_RouteFinishedAfterAllGameOver ==
  [][server = "route" =>
       \A c \in DOMAIN gameRooms' :
         (/\ gameRooms'[c].gameState = "finished"
          /\ (c \in DOMAIN gameRooms => gameRooms[c].gameState # "finished"))
           => /\ c \in DOMAIN gameRooms
              /\ gameRooms[c].gameState = "playing"
              /\ request'.event = "gameOver"
              /\ ~(/\ request.event = "startGame"
                   /\ \E i \in 1..Len(gameRooms[c].players) :
                        gameRooms[c].players[i].id # request'.socket)]_vars

\* C33: in every server implementation a room whose gameState is Playing has
\* exactly 2 players.
C33_PlayingRoomHasTwoPlayers ==
  \A c \in DOMAIN gameRooms :
    gameRooms[c].gameState = "playing" => Len(gameRooms[c].players) = 2

\* C34: in the standalone server a toggleReady request served while the
\* sender's room is Playing or Finished changes no isReady flag, and every
\* player of a Playing room is ready.
C34_ReadyChangesOnlyWhileWaiting ==
  [][Standalone =>
       /\ \A c \in DOMAIN gameRooms :
            (/\ request'.event = "toggleReady"
             /\ gameRooms[c].gameState \in {"playing", "finished"})
              => /\ c \in DOMAIN gameRooms'
                 /\ Len(gameRooms'[c].players) = Len(gameRooms[c].players)
                 /\ \A i \in 1..Len(gameRooms[c].players) :
                      gameRooms'[c].players[i].isReady = gameRooms[c].players[i].isReady
       /\ \A c \in DOMAIN gameRooms' :
            gameRooms'[c].gameState = "playing" => AllReady(gameRooms'[c].players)]_vars

\* C35: in the standalone server each connection is a player of at most one
\* room, is listed at most once in that room, and is a player of room c
\* exactly when its current-room reference (socket.roomCode) is c.
C35_OneRoomOneEntry ==
  Standalone =>
    \A s \in Sockets :
      LET entries(c) == {i \in 1..Len(gameRooms[c].players) : gameRooms[c].players[i].id = s}
          roomsOf == {c \in DOMAIN gameRooms : entries(c) # {}}
      IN /\ Cardinality(roomsOf) <= 1
         /\ \A c \in roomsOf : Cardinality(entries(c)) = 1
         /\ \A c \in DOMAIN gameRooms : (c \in roomsOf) <=> (socketRoomCode[s] = c)

\* the server has just served a gameOver request of client s
ServedGameOver(s) ==
  /\ outbox[s] # <<>>
  /\ Head(outbox[s]).event = "gameOver"
  /\ outbox'[s] = Tail(outbox[s])

\* C36: when the server determines the winner (the gameOver request that
\* finishes the room), the score it holds for each player of the room is the
\* score that player's game page shows at that moment, the points of the
\* placement that ended its game included.
C36_WinnerUsesFinalScores ==
  [][\A s \in Sockets :
       (ServedGameOver(s) /\ CountEvent(emitted', "gameFinished") > 0) =>
         LET c == socketRoomCode[s] IN
         \A i \in 1..Len(gameRooms'[c].players) :
           gameRooms'[c].players[i].score = gameScore[gameRooms'[c].players[i].id]]_vars

\* C37: a client that called leaveRoom and has not created or joined a room
\* since holds no room info (roomInfo is null).
C37_RoomInfoStaysNullAfterLeave ==
  \A s \in Sockets : leftRoom[s] => globalRoomInfo[s] = <<>>

\* C38: whenever no broadcast is waiting to be handled, the room info held by
\* the client of each player of a room is the standalone server's view of
\* that room: the same players in the same order with the same isReady and
\* isHost flags, and the same gameState.
C38_SnapshotAgreesWithServer ==
  (\A t \in Sockets : inbox[t] = <<>>) =>
    \A c \in DOMAIN gameRooms :
      \A i \in 1..Len(gameRooms[c].players) :
        LET s == gameRooms[c].players[i].id IN
        globalRoomInfo[s] # <<>> =>
          /\ globalRoomInfo[s][1].players = getRoomInfo(gameRooms, c).players
          /\ globalRoomInfo[s][1].gameState = gameRooms[c].gameState

\* C40: the pieces a client's game page holds come from the gameStarted
\* broadcast of the server, never from the page's own generator; and a client
\* handles gameStarted only while its game page (and so the page's gameStarted
\* listener) is mounted.
C40_PiecesComeFromServer ==
  [][\A s \in Sockets :
       /\ (page'[s] = "game" /\ gamePieces'[s] # "none") => gamePieces'[s] = "server"
       /\ (/\ inbox[s] # <<>>
           /\ inbox'[s] = Tail(inbox[s])
           /\ Head(inbox[s]).event = "gameStarted") => page[s] = "game"]_vars

\* C39: in the API-route server every broadcast that reaches a player of a
\* room (opponentUpdated in particular) was caused by a request of a
\* connection that is a player of that room, or was one until this very
\* request removed it.
C39_RouteBroadcastsComeFromPlayers ==
  server = "route" =>
    \A k \in 1..Len(emitted) :
      LET m == emitted[k]
          c == m.room
      IN (/\ c \in DOMAIN gameRooms
          /\ \E t \in PlayerConnections(c) : t \in m.to)
           => \/ request.socket \in PlayerConnections(c)
              \/ IsRemoval(request)
====
